---- MODULE Spec2Model ----
(***************************************************************************)
(* Session state machine of qachat.py: the Streamlit script that keeps a   *)
(* display transcript (chat_history), a mirror of the remote chat's turns  *)
(* (model_history) and the remote chat object (chat_session) in            *)
(* st.session_state, and re-runs top to bottom on every interaction.       *)
(*                                                                         *)
(* Texts are sequences of characters, so that concatenation is real.       *)
(* A script run that handles a chat input is split at the points where the *)
(* remote collaborator acts: the send, each fragment pulled from the       *)
(* stream, the end of the stream, and the read of the chat's history.      *)
(* While a run is in progress (pc # "idle") no other interaction is taken, *)
(* except that the run may be stopped (StreamAbort).                       *)
(***************************************************************************)
EXTENDS Naturals, Sequences, FiniteSets

\* ---------------------------------------------------------------- bounds
MaxFragments == 2      \* fragments one stream yields at most
MaxTurns == 2          \* chat inputs submitted between two resets
MaxEdits == 2          \* selector edits in one session
MaxOption == 2         \* an edit picks among the first MaxOption options of its selector

\* ------------------------------------------------------- sidebar selectors
Selectors ==
  <<"current_age", "current_income", "current_rate", "current_risk",
    "current_goal", "current_horizon", "current_knowledge">>

SelectorKeys == {Selectors[i] : i \in 1..Len(Selectors)}

\* the option labels of each selectbox, in display order (the income labels
\* without their currency sign)
SelectorOptions ==
  [current_age |-> <<"18-25 (Young Professional)", "26-35 (Family Planning)",
                     "36-50 (Mid-Career)", "51+ (Pre/Post Retirement)">>,
   current_income |-> <<"Less than 20,000", "20,000 - 50,000",
                        "50,000 - 1,00,000", "More than 1,00,000">>,
   current_rate |-> <<"None (No significant debt)",
                      "Under 8% (e.g., Home/Auto Loan)",
                      "8% - 15% (e.g., Personal Loan)",
                      "Over 15% (e.g., Credit Card/High-Interest Debt)">>,
   current_risk |-> <<"Conservative (Safety first)",
                      "Moderate (Balanced growth and safety)",
                      "Aggressive (High growth, high risk)">>,
   current_goal |-> <<"Debt Reduction", "Retirement Planning",
                      "Large Purchase (e.g., house/car)",
                      "General Wealth Building">>,
   current_horizon |-> <<"Short-term (1-3 years)", "Medium-term (3-10 years)",
                         "Long-term (10+ years)">>,
   current_knowledge |-> <<"Novice", "Familiar", "Experienced Investor",
                           "Professional">>]

\* a selectbox without index shows its first option
DefaultSelection == [k \in SelectorKeys |-> SelectorOptions[k][1]]

on_change_missing ==
  [k \in SelectorKeys |-> IF k = "current_knowledge" THEN "None" ELSE "reset_history"]

\* on_change callback registered on each selectbox
on_change == [k \in SelectorKeys |-> "reset_history"]

\* the f-string of the system instruction: the slots it substitutes, in order
system_prompt(sel) ==
  <<sel["current_age"], sel["current_income"], sel["current_rate"],
    sel["current_risk"], sel["current_goal"], sel["current_horizon"],
    sel["current_knowledge"],
    sel["current_knowledge"], sel["current_goal"], sel["current_risk"]>>

\* ------------------------------------------------------------------ texts
Prompts == {<<"x">>, <<"y">>}

\* chunk.text raises ValueError for a fragment without readable text
Undecodable == [valid |-> FALSE, text |-> <<>>]
TextChunk(t) == [valid |-> TRUE, text |-> t]
Fragments == {TextChunk(<<>>), TextChunk(<<"a">>), TextChunk(<<"b">>), Undecodable}

\* the inputs of the session specification, where the wording of a message plays
\* no part: one prompt, and fragments that are readable or not
SessionPrompts == {<<"x">>}
SessionFragments == {TextChunk(<<"a">>), Undecodable}

None == [kind |-> "None"]
Truthy(x) == x.kind # "None"

VARIABLES
  selection,        \* st.session_state of the seven selectbox keys
  chat_history,     \* st.session_state['chat_history']: <<role, text>> pairs
  model_history,    \* st.session_state['model_history']
  chat_session,     \* st.session_state['chat_session']
  response_stream,  \* local of the chat-input run: what get_gemini_response returned
  full_response,    \* local of the chat-input run
  pc,               \* position of the running script
  st_error,         \* the st.error shown by the current run
  history_saved,    \* line 216 has assigned model_history in the current run
  reset_calls,      \* reset_history invocations of the current run
  edits             \* selector edits so far

vars == <<selection, chat_history, model_history, chat_session, response_stream,
          full_response, pc, st_error, history_saved, reset_calls, edits>>

\* ------------------------------------------------- the remote chat object
\* model.start_chat(history=...) on a model built with system_instruction
start_chat(instruction, history) ==
  [kind |-> "ChatSession", system_instruction |-> instruction,
   history |-> history, pending |-> FALSE]

\* the chat after send_message returned a response: the exchange is pending
\* until the history is read
sent_message(chat) == [chat EXCEPT !.pending = TRUE]

\* the response object send_message(question, stream=True) returns
Response(question) ==
  [kind |-> "GenerateContentResponse", sent |-> question, yielded |-> <<>>,
   exhausted |-> FALSE]

RECURSIVE ReplyText(_)
\* the reply the remote service sent: the readable texts of its fragments, in order
ReplyText(chunks) ==
  IF chunks = <<>> THEN <<>>
  ELSE (IF Head(chunks).valid THEN Head(chunks).text ELSE <<>>) \o ReplyText(Tail(chunks))

UserTurn(text) == [role |-> "user", text |-> text]
ModelTurn(text) == [role |-> "model", text |-> text]

\* chat.history: the seeded turns, plus the pending exchange once its stream was
\* consumed to the end; it raises for a pending exchange that is incomplete or
\* that the service ended abnormally (broken)
HistoryRead(chat, rs, broken) ==
  IF ~chat.pending
    THEN [raises |-> FALSE, value |-> chat.history]
    ELSE IF Truthy(rs) /\ rs.exhausted /\ ~broken
      THEN [raises |-> FALSE,
            value |-> chat.history \o
                      <<UserTurn(rs.sent), ModelTurn(ReplyText(rs.yielded))>>]
      ELSE [raises |-> TRUE, value |-> <<>>]

\* ------------------------------------------------------ pieces of the script
\* variants of the pieces below, each a slip the script could contain
reset_history_discards ==
  /\ chat_history' = <<>>
  /\ model_history' = <<>>
  /\ chat_session' = None

StoredSession_AfterSend(old, opened, sendOk) == IF sendOk THEN opened ELSE old

OpenedSession_Reused(old, instruction, history) ==
  IF Truthy(old) THEN [old EXCEPT !.pending = FALSE]
  ELSE start_chat(instruction, history)

AppendsReply_NonEmpty(rs, full) == Truthy(rs) /\ full # <<>>

Accumulate_Overwrite(full, chunk) ==
  IF chunk.valid /\ chunk.text # <<>> THEN chunk.text ELSE full

SaveGuard_OnResponse(session, rs) == Truthy(session) /\ Truthy(rs)

SavedHistory_Extend(old, read) == old \o read

\* reset_history(): both lists are cleared, nothing else is touched
reset_history ==
  /\ chat_history' = <<>>
  /\ model_history' = <<>>
  /\ UNCHANGED chat_session

\* line 48 runs before send_message (line 50): the chat just opened is stored
\* whether or not the send succeeds
StoredSession(old, opened, sendOk) == opened

\* line 45: a new chat on every call, seeded with the saved model history
OpenedSession(old, instruction, history) == start_chat(instruction, history)

\* lines 197 and 211: the reply is appended when get_gemini_response returned a
\* response object
AppendsReply(rs, full) == Truthy(rs)

\* lines 199-205: one pass of the loop body
Accumulate(full, chunk) ==
  IF chunk.valid /\ chunk.text # <<>> THEN full \o chunk.text ELSE full

\* line 214
SaveGuard(session, rs) == Truthy(session)

\* line 216: assignment, not extension
SavedHistory(old, read) == read

Turns(h) == Cardinality({i \in 1..Len(h) : h[i][1] = "You"})

\* ------------------------------------------------------------------- Init
Init ==
  /\ selection = DefaultSelection
  /\ chat_history = <<>>
  /\ model_history = <<>>
  /\ chat_session = None
  /\ response_stream = None
  /\ full_response = <<>>
  /\ pc = "idle"
  /\ st_error = {}
  /\ history_saved = FALSE
  /\ reset_calls = 0
  /\ edits = 0

\* every interaction starts a new run of the script
NewRun ==
  /\ pc = "idle"
  /\ history_saved' = FALSE

\* ---------------------------------------------------------------- actions
\* a selectbox gets a new value: its on_change callback runs, then the script
SelectorEdit(k, v) ==
  /\ NewRun
  /\ edits < MaxEdits
  /\ v # selection[k]
  /\ selection' = [selection EXCEPT ![k] = v]
  /\ edits' = edits + 1
  /\ IF on_change[k] = "reset_history"
       THEN reset_history /\ reset_calls' = 1
       ELSE UNCHANGED <<chat_history, model_history, chat_session>> /\ reset_calls' = 0
  /\ st_error' = {}
  /\ UNCHANGED <<pc, response_stream, full_response>>

\* the "Clear Conversation History" button
ClearButton ==
  /\ NewRun
  /\ reset_history
  /\ reset_calls' = 1
  /\ st_error' = {}
  /\ UNCHANGED <<selection, pc, edits, response_stream, full_response>>

\* chat input, lines 179-197, with get_gemini_response (lines 33-55)
ChatInput(prompt, sendOk) ==
  /\ NewRun
  /\ Turns(chat_history) < MaxTurns
  /\ chat_history' = Append(chat_history, <<"You", prompt>>)
  /\ LET opened == OpenedSession(chat_session, system_prompt(selection), model_history)
     IN  IF sendOk
           THEN /\ chat_session' = StoredSession(chat_session, sent_message(opened), TRUE)
                /\ response_stream' = Response(prompt)
                /\ st_error' = {}
                /\ pc' = "stream"
           ELSE /\ chat_session' = StoredSession(chat_session, opened, FALSE)
                /\ response_stream' = None
                /\ st_error' = {"An API error occurred"}
                /\ pc' = "save"
  /\ full_response' = <<>>
  /\ reset_calls' = 0
  /\ UNCHANGED <<selection, model_history, edits>>

\* lines 198-205: the loop pulls one more fragment from the stream
StreamChunk(chunk) ==
  /\ pc = "stream"
  /\ Len(response_stream.yielded) < MaxFragments
  /\ response_stream' = [response_stream EXCEPT !.yielded = Append(@, chunk)]
  /\ full_response' = Accumulate(full_response, chunk)
  /\ UNCHANGED <<selection, chat_history, model_history, chat_session, pc,
                 st_error, history_saved, reset_calls, edits>>

\* lines 198, 208-211: the stream is exhausted, the loop ends
StreamEnd ==
  /\ pc = "stream"
  /\ response_stream' = [response_stream EXCEPT !.exhausted = TRUE]
  /\ chat_history' = IF AppendsReply(response_stream, full_response)
                       THEN Append(chat_history, <<"Bot", full_response>>)
                       ELSE chat_history
  /\ pc' = "save"
  /\ UNCHANGED <<selection, model_history, chat_session, full_response,
                 st_error, history_saved, reset_calls, edits>>

\* the run stops inside the loop: the iteration raises (nothing catches it), or
\* the framework stops the run for a newer interaction; its locals are gone
StreamAbort ==
  /\ pc = "stream"
  /\ pc' = "idle"
  /\ response_stream' = None
  /\ full_response' = <<>>
  /\ UNCHANGED <<selection, chat_history, model_history, chat_session,
                 st_error, history_saved, reset_calls, edits>>

\* lines 213-218, then the run ends
SaveHistory(broken) ==
  /\ pc = "save"
  /\ IF SaveGuard(chat_session, response_stream)
       THEN LET read == HistoryRead(chat_session, response_stream, broken)
            IN  IF read.raises
                  THEN /\ st_error' = st_error \cup {"Error saving model history"}
                       /\ UNCHANGED <<model_history, chat_session, history_saved>>
                  ELSE /\ model_history' = SavedHistory(model_history, read.value)
                       /\ chat_session' = [chat_session EXCEPT !.history = read.value,
                                                               !.pending = FALSE]
                       /\ history_saved' = TRUE
                       /\ UNCHANGED st_error
       ELSE UNCHANGED <<model_history, chat_session, history_saved, st_error>>
  /\ pc' = "idle"
  /\ response_stream' = None
  /\ full_response' = <<>>
  /\ UNCHANGED <<selection, chat_history, reset_calls, edits>>

Next ==
  \/ \E k \in SelectorKeys :
       \E i \in 1..Len(SelectorOptions[k]) :
         i <= MaxOption /\ SelectorEdit(k, SelectorOptions[k][i])
  \/ ClearButton
  \/ \E prompt \in SessionPrompts, sendOk \in BOOLEAN : ChatInput(prompt, sendOk)
  \/ \E chunk \in SessionFragments : StreamChunk(chunk)
  \/ StreamEnd
  \/ StreamAbort
  \/ \E broken \in BOOLEAN : SaveHistory(broken)

\* the whole session: every selector, the clear button, chat inputs
Spec == Init /\ [][Next]_vars

NextStream ==
  \/ ClearButton
  \/ \E prompt \in Prompts, sendOk \in BOOLEAN : ChatInput(prompt, sendOk)
  \/ \E chunk \in Fragments : StreamChunk(chunk)
  \/ StreamEnd
  \/ StreamAbort
  \/ \E broken \in BOOLEAN : SaveHistory(broken)

\* the chat under one fixed profile, with every kind of fragment
SpecStream == Init /\ [][NextStream]_vars

\* ================================================================ claims
Last(h) == h[Len(h)]
HasBot(h) == \E i \in 1..Len(h) : h[i][1] = "Bot"
ApiError == "An API error occurred"
SaveError == "Error saving model history"

\* the run is at line 214 and get_gemini_response had returned None
CallFailed == pc = "save" /\ ~Truthy(response_stream)
\* the run is at line 214 and the stream was consumed to its end
StreamConsumed == pc = "save" /\ Truthy(response_stream) /\ response_stream.exhausted
\* what the chat holds after the exchange of this run
PostExchange ==
  chat_session.history \o
    <<UserTurn(response_stream.sent), ModelTurn(ReplyText(response_stream.yielded))>>

\* C1: a chat input whose remote call raises appends the user entry and nothing
\* else to the transcript, and the run ends with model_history as it was before
\* the input, from every state of the session.
C1_FailedSubmit ==
  [][ /\ (pc = "idle" /\ pc' = "save")
         => /\ Len(chat_history') = Len(chat_history) + 1
            /\ SubSeq(chat_history', 1, Len(chat_history)) = chat_history
            /\ Last(chat_history')[1] = "You"
            /\ model_history' = model_history
      /\ CallFailed
         => /\ chat_history' = chat_history
            /\ model_history' = model_history
            /\ pc' = "idle" ]_vars

C1_Witness ==
  /\ pc = "idle"
  /\ ApiError \in st_error
  /\ Len(chat_history) = 3
  /\ chat_history[2][1] = "Bot"
  /\ chat_history[3][1] = "You"
  /\ Len(model_history) = 2

\* C2 as stated: after a stream consumed to its end, model_history is always the
\* chat's history with the exchange added.
C2_Original ==
  [][ StreamConsumed => model_history' = PostExchange ]_vars

\* C2 amended: a chat input whose stream is consumed to its end adds the user
\* entry and then the assistant entry to the transcript; model_history is then
\* replaced by the chat's history with the exchange added whenever reading that
\* history returns, and is left as it was, with an error shown, when it raises.
C2_SuccessfulSubmit ==
  [][ /\ (pc = "idle" /\ pc' = "stream")
         => chat_history' = Append(chat_history, <<"You", response_stream'.sent>>)
      /\ (pc = "stream" /\ pc' = "stream") => chat_history' = chat_history
      /\ (pc = "stream" /\ pc' = "save")
         => chat_history' = Append(chat_history, <<"Bot", full_response>>)
      /\ StreamConsumed
         => /\ chat_history' = chat_history
            /\ \/ model_history' = PostExchange /\ history_saved'
               \/ /\ model_history' = model_history
                  /\ SaveError \in st_error'
                  /\ ~history_saved' ]_vars

C2_Witness ==
  /\ pc = "idle"
  /\ history_saved
  /\ Len(chat_history) = 4
  /\ chat_history[3][1] = "You"
  /\ chat_history[4][1] = "Bot"
  /\ Len(model_history) = 4
  /\ model_history[4] = ModelTurn(chat_history[4][2])

\* C3: every selector edit calls reset_history once, and the state right after
\* the edit has an empty transcript and an empty model_history; no step empties
\* one of the two lists and leaves the other non-empty.
C3_EditResets ==
  [][ /\ selection' # selection
         => /\ reset_calls' = 1
            /\ chat_history' = <<>>
            /\ model_history' = <<>>
            /\ pc' = "idle"
      /\ (chat_history # <<>> /\ chat_history' = <<>>) => model_history' = <<>>
      /\ (model_history # <<>> /\ model_history' = <<>>) => chat_history' = <<>> ]_vars

C3_Witness ==
  /\ selection["current_knowledge"] # DefaultSelection["current_knowledge"]
  /\ reset_calls = 1
  /\ chat_history = <<>>
  /\ model_history = <<>>
  /\ Truthy(chat_session)
  /\ Len(chat_session.history) = 2

\* C4 as stated: after a reset the chat object is gone.
C4_Original ==
  (pc = "idle" /\ reset_calls = 1) => chat_session = None

\* C4 amended: reset_history, from every state, empties the transcript and
\* model_history and leaves chat_session as it was: the chat object of the last
\* chat input stays stored.
C4_ResetKeepsSession ==
  [][ reset_calls' = 1
        => /\ chat_history' = <<>>
           /\ model_history' = <<>>
           /\ chat_session' = chat_session ]_vars

C4_Witness ==
  /\ reset_calls = 1
  /\ chat_history = <<>>
  /\ model_history = <<>>
  /\ Truthy(chat_session)
  /\ ~chat_session.pending
  /\ Len(chat_session.history) = 2
  /\ selection = DefaultSelection
  /\ edits = 0

\* C5 as stated: a stream that yields no fragment adds no assistant entry and
\* model_history is not assigned.
C5_Original ==
  [][ /\ (pc = "stream" /\ response_stream.yielded = <<>> /\ pc' = "save")
         => chat_history' = chat_history
      /\ (StreamConsumed /\ response_stream.yielded = <<>>)
         => ~history_saved' ]_vars

\* C5 amended: a stream that yields no fragment adds an assistant entry with
\* empty text, and model_history is then assigned from the chat as after any
\* consumed stream (unless reading the chat's history raises); the assistant
\* entry is left out only when get_gemini_response returned None.
C5_EmptyStream ==
  [][ /\ (pc = "stream" /\ response_stream.yielded = <<>> /\ pc' = "save")
         => chat_history' = Append(chat_history, <<"Bot", <<>> >>)
      /\ (StreamConsumed /\ response_stream.yielded = <<>>)
         => \/ history_saved' /\ model_history' = PostExchange
            \/ SaveError \in st_error' /\ model_history' = model_history
      /\ CallFailed => chat_history' = chat_history /\ Last(chat_history)[1] = "You" ]_vars

C5_Witness ==
  /\ StreamConsumed
  /\ response_stream.yielded = <<>>
  /\ Last(chat_history) = <<"Bot", <<>> >>

\* C6 as stated: after the first chat input of a session failed in the remote
\* call, the chat object is still None.
C6_Original ==
  (pc = "idle" /\ ApiError \in st_error /\ Len(chat_history) = 1 /\ edits = 0)
    => chat_session = None

\* C6 amended: when the remote call of the first chat input of a session raises,
\* the transcript holds exactly the user entry, the API error is shown, and
\* chat_session is the chat that input opened (not None), with an empty history;
\* the rest of the run changes none of these.
C6_FirstSubmitFails ==
  [][ /\ (chat_session = None /\ pc = "idle" /\ pc' = "save")
         => /\ Len(chat_history') = 1
            /\ chat_history'[1][1] = "You"
            /\ ApiError \in st_error'
            /\ chat_session' = start_chat(system_prompt(selection), <<>>)
      /\ CallFailed
         => /\ chat_history' = chat_history
            /\ chat_session' = chat_session
            /\ ApiError \in st_error' ]_vars

C6_Witness ==
  /\ pc = "idle"
  /\ ApiError \in st_error
  /\ Len(chat_history) = 1
  /\ chat_history[1][1] = "You"
  /\ chat_session = start_chat(system_prompt(DefaultSelection), <<>>)
  /\ edits = 0

\* C7: while a stream is consumed the running reply is the concatenation, in
\* order, of the readable texts yielded so far, a fragment whose text raises
\* ValueError adding nothing and not ending the loop; the assistant entry
\* appended at the end of the stream has the concatenation over all fragments.
C7_ReplyIsConcatenation ==
  /\ pc = "stream" => full_response = ReplyText(response_stream.yielded)
  /\ StreamConsumed => Last(chat_history) = <<"Bot", ReplyText(response_stream.yielded)>>

C7_Witness ==
  /\ StreamConsumed
  /\ response_stream.yielded = <<Undecodable, TextChunk(<<"b">>)>>
  /\ Last(chat_history) = <<"Bot", <<"b">> >>

C9_FreshSession ==
  [][ /\ (pc = "idle" /\ pc' # "idle")
         => /\ Truthy(chat_session')
            /\ chat_session'.system_instruction = system_prompt(selection')
            /\ chat_session'.history = model_history
      /\ (pc # "idle")
         => /\ chat_session.system_instruction = system_prompt(selection)
            /\ chat_session'.system_instruction = chat_session.system_instruction ]_vars

C9_Witness ==
  /\ pc = "stream"
  /\ selection["current_income"] # DefaultSelection["current_income"]
  /\ chat_session.system_instruction = system_prompt(selection)
  /\ chat_session.system_instruction[2] = selection["current_income"]
  /\ Len(chat_history) = 3

\* C10: as long as the transcript shows no assistant entry, that is from a reset
\* until a stream has been consumed to its end, model_history is empty: a chat
\* input that fails writes no turn of an earlier chat back.
C10_NoStaleHistory ==
  ~HasBot(chat_history) => model_history = <<>>

C10_Witness ==
  /\ pc = "idle"
  /\ selection # DefaultSelection
  /\ ApiError \in st_error
  /\ history_saved
  /\ Len(chat_history) = 2
  /\ ~HasBot(chat_history)
  /\ model_history = <<>>

====
